---- MODULE Spec2Model ----
(***************************************************************************)
(* Model of the email service: the POST /api/email/send handler            *)
(* (src/src/routes/email.ts) and the send loop it awaits                   *)
(* (src/src/services/emailService.ts).                                     *)
(*                                                                         *)
(* One behaviour is one request.  Init draws the request body and the      *)
(* process environment; HandlerStart runs the handler from its entry to    *)
(* its first suspension (the first `await client.sendAsync`) or to its     *)
(* response; each later action is the completion of the send in flight,    *)
(* chosen by the SMTP server, and runs the code up to the next send or to  *)
(* the response.                                                           *)
(***************************************************************************)
EXTENDS Integers, Sequences, FiniteSets, TLC

VARIABLES
    req,                \* the inbound request: req.body of the handler
    env,                \* process.env: NODE_ENV, TLS_REJECT_UNAUTHORIZED
    pc,                 \* where the handler is: "start", "sending", "done"
    validRecipients,    \* sendEmail's validRecipients
    invalidRecipients,  \* sendEmail's invalidRecipients
    cursor,             \* position in validRecipients of the send in flight
    clients,            \* the SMTPClient objects constructed, by their TLS option
    session,            \* state of the client's connection to the server
    sends,              \* the client.sendAsync calls made, with their results
    log,                \* the logger calls made
    thrown,             \* where the error the handler caught was raised
    response,           \* the HTTP responses written
    address,            \* validateRecipient alone: the email it is given
    validated,          \* validateRecipient alone: "pending", "accepted", "rejected"
    template,           \* replaceVariables alone: its text argument
    renderRecipient,    \* replaceVariables alone: its recipient argument
    rendered,           \* replaceVariables alone: its result, once it has returned
    dispatches,         \* concurrent sendEmail calls: the locals of each call
    sessions,           \* concurrent sendEmail calls: the SMTPClient objects made
    inbound,            \* middleware chain: the HTTP request
    stage,              \* middleware chain: the middleware the request is at
    pendingError,       \* middleware chain: the error handed to next(err), if any
    writes              \* middleware chain: the attempts to write a response

\* the variables of one request through the handler
handlerVars == << req, env, pc, validRecipients, invalidRecipients, cursor, clients,
                  session, sends, log, thrown, response >>

\* the variables of validateRecipient called on its own
validatorVars == << address, validated >>

\* the variables of replaceVariables called on its own
renderVars == << template, renderRecipient, rendered >>

\* the variables of the sendEmail calls running concurrently
concurrentVars == << dispatches, sessions >>

\* the variables of a request passing through the middleware chain
chainVars == << inbound, stage, pendingError, writes >>

\* what a step of the handler leaves alone
outsideHandler == << validatorVars, renderVars, concurrentVars, chainVars >>

vars == << handlerVars, validatorVars, renderVars, concurrentVars, chainVars >>

----------------------------------------------------------------------------
(* Bounds of the model *)

MaxRecipients == 3

\* the longest address validateRecipient is tried on
MaxAddrLen == 6

\* the most pieces a template given to replaceVariables is put together from
MaxParts == 2

\* the most recipients of each of the sendEmail calls running concurrently
MaxBatch == 2

----------------------------------------------------------------------------
(* Strings *)

\* the characters the regular expression class \s matches, among those used
IsSpace(c) == c \in {" ", "\t", "\n"}

\* String.prototype.includes
Includes(s, sub) ==
    \E i \in 1..(Len(s) - Len(sub) + 1) : SubSeq(s, i, i + Len(sub) - 1) = sub

\* String.prototype.trim
RECURSIVE TrimStart(_)
TrimStart(s) ==
    IF Len(s) > 0 /\ IsSpace(SubSeq(s, 1, 1))
    THEN TrimStart(SubSeq(s, 2, Len(s)))
    ELSE s

RECURSIVE TrimEnd(_)
TrimEnd(s) ==
    IF Len(s) > 0 /\ IsSpace(SubSeq(s, Len(s), Len(s)))
    THEN TrimEnd(SubSeq(s, 1, Len(s) - 1))
    ELSE s

Trim(s) == TrimEnd(TrimStart(s))

----------------------------------------------------------------------------
(* emailService.ts: the recipient validator and the partition *)

\* a character of the class [^\s@]
IsAddrChar(c) == ~IsSpace(c) /\ c # "@"

\* s[from..to] is a non-empty run of [^\s@]
AddrRun(s, from, to) ==
    /\ from <= to
    /\ \A k \in from..to : IsAddrChar(SubSeq(s, k, k))

\* the expression without its dot: /^[^\s@]+@[^\s@]+$/
EmailRegexTest_NoDot(s) ==
    \E i \in 1..Len(s) :
        /\ SubSeq(s, i, i) = "@"
        /\ AddrRun(s, 1, i - 1)
        /\ AddrRun(s, i + 1, Len(s))

\* /^[^\s@]+@[^\s@]+\.[^\s@]+$/.test(email): some '@' at i and some '.' at j
\* split the whole string into three non-empty runs of [^\s@]
EmailRegexTest(s) ==
    \E i \in 1..Len(s) : \E j \in (i + 1)..Len(s) :
        /\ SubSeq(s, i, i) = "@"
        /\ SubSeq(s, j, j) = "."
        /\ AddrRun(s, 1, i - 1)
        /\ AddrRun(s, i + 1, j - 1)
        /\ AddrRun(s, j + 1, Len(s))

validateRecipient(recipient) == EmailRegexTest(recipient.email)

\* the loop run over `to` itself: nothing filtered out
FilterValid_All(to) == to

\* Array.prototype.filter with validateRecipient: the elements that pass, in order
RECURSIVE FilterValid(_)
FilterValid(to) ==
    IF to = << >> THEN << >>
    ELSE IF validateRecipient(Head(to))
         THEN << Head(to) >> \o FilterValid(Tail(to))
         ELSE FilterValid(Tail(to))

\* the second filter with its negation forgotten
FilterInvalid_SamePredicate(to) == FilterValid(to)

\* Array.prototype.filter with r => !validateRecipient(r)
RECURSIVE FilterInvalid(_)
FilterInvalid(to) ==
    IF to = << >> THEN << >>
    ELSE IF ~validateRecipient(Head(to))
         THEN << Head(to) >> \o FilterInvalid(Tail(to))
         ELSE FilterInvalid(Tail(to))

----------------------------------------------------------------------------
(* routes/email.ts: validateEmailRequest *)

requiredSmtpFields ==
    << "host", "port", "username", "password", "secure", "fromEmail", "fromName" >>

\* the first required field that is not `in` the smtpConfig object, as a
\* sequence of zero or one names (the for loop throws at the first one)
RECURSIVE FirstMissing(_, _)
FirstMissing(fields, present) ==
    IF fields = << >> THEN << >>
    ELSE IF Head(fields) \notin present THEN << Head(fields) >>
         ELSE FirstMissing(Tail(fields), present)

\* validateEmailRequest(body): the message of the Error it throws, as a
\* sequence of one string, or the empty sequence when it returns true
validateEmailRequest(body) ==
    IF ~body.recipients.isArray \/ Len(body.recipients.items) = 0
    THEN << "Recipients must be a non-empty array" >>
    ELSE IF ~body.subject.isString \/ Len(Trim(body.subject.value)) = 0
    THEN << "Subject is required" >>
    ELSE IF ~body.body.isString \/ Len(Trim(body.body.value)) = 0
    THEN << "Email body is required" >>
    ELSE IF ~body.smtpConfig.isObject
    THEN << "SMTP configuration is required" >>
    ELSE IF FirstMissing(requiredSmtpFields, body.smtpConfig.fields) # << >>
    THEN << "Missing required SMTP field: "
            \o FirstMissing(requiredSmtpFields, body.smtpConfig.fields)[1] >>
    ELSE IF ~body.smtpConfig.port.isNumber \/ body.smtpConfig.port.value <= 0
    THEN << "SMTP port must be a positive number" >>
    ELSE << >>

----------------------------------------------------------------------------
(* routes/email.ts: the responses of sendEmailHandler *)

\* the handler's classification of a caught Error by its message
isValidationError(message) ==
    \/ Includes(message, "required")
    \/ Includes(message, "must be")
    \/ Includes(message, "Missing")

\* the `error` member of the failure body: present only in development
ErrorDetail(message) ==
    IF env.NODE_ENV = "development" THEN << message >> ELSE << >>

\* res.status(isValidationError ? 400 : 500).json({success: false, message, error})
ErrorResponse(message) ==
    [ status  |-> IF isValidationError(message) THEN 400 ELSE 500,
      success |-> FALSE,
      message |-> IF isValidationError(message) THEN message
                  ELSE "Failed to send email",
      error   |-> ErrorDetail(message) ]

\* the number the success message names: recipients.length of the request body
SuccessCount == Len(req.body.recipients.items)

\* res.json({success: true, message: `Email sent successfully to N recipient(s)`})
SuccessResponse ==
    [ status  |-> 200,
      success |-> TRUE,
      message |-> "Email sent successfully to " \o ToString(SuccessCount)
                  \o " recipient(s)",
      error   |-> << >> ]

----------------------------------------------------------------------------
(* logger calls *)

LogEntry(level, msg, data) == [ level |-> level, msg |-> msg, data |-> data ]

RECURSIVE Emails(_)
Emails(rs) == IF rs = << >> THEN << >> ELSE << Head(rs).email >> \o Emails(Tail(rs))

LogReceived    == LogEntry("info", "Received email send request", << >>)
LogInit        == LogEntry("info", "Initializing email send operation", << >>)
LogInvalid(rs) == LogEntry("warn", "Invalid recipients found", Emails(rs))
LogNoValid     == LogEntry("error", "Email send failed - no valid recipients", << >>)
LogSending(r)  == LogEntry("info", "Sending email", << r.email >>)
LogSent(r)     == LogEntry("info", "Email sent successfully", << r.email >>)
LogSendFailed(m) == LogEntry("error", "Email send failed", << m >>)
LogCompleted   == LogEntry("info", "Email send request completed", << >>)
LogRequestFailed(m) == LogEntry("error", "Email send request failed", << m >>)

----------------------------------------------------------------------------
(* The requests and environments the model draws from *)

Unset == "<unset>"

RecipientPool ==
    { [email |-> "a@x.com"], [email |-> "b@y.org"],
      [email |-> "not-an-email"], [email |-> "c d@z.io"] }

BoundedSeq(S, n) == UNION { [1..k -> S] : k \in 0..n }

RecipientsValues ==
    { [isArray |-> FALSE, items |-> << >>] }
    \cup { [isArray |-> TRUE, items |-> s] : s \in BoundedSeq(RecipientPool, MaxRecipients) }

SubjectValues ==
    { [isString |-> FALSE, value |-> ""], [isString |-> TRUE, value |-> " \t "],
      [isString |-> TRUE, value |-> "Hi [first_name]"] }

BodyValues ==
    { [isString |-> FALSE, value |-> ""], [isString |-> TRUE, value |-> "\n "],
      [isString |-> TRUE, value |-> "<p>Hello [first_name] at [company]</p>"] }

AllSmtpFields == { requiredSmtpFields[i] : i \in DOMAIN requiredSmtpFields }

NoPort == [isNumber |-> FALSE, value |-> 0]

PortValues ==
    { NoPort, [isNumber |-> TRUE, value |-> 587], [isNumber |-> TRUE, value |-> 0],
      [isNumber |-> TRUE, value |-> -1] }

SmtpConfigValues ==
    { [isObject |-> FALSE, fields |-> {}, port |-> NoPort] }
    \cup { [isObject |-> TRUE, fields |-> AllSmtpFields \ {f}, port |-> NoPort] :
             f \in AllSmtpFields }
    \cup { [isObject |-> TRUE, fields |-> AllSmtpFields, port |-> p] : p \in PortValues }

Bodies ==
    [ recipients : RecipientsValues, subject : SubjectValues, body : BodyValues,
      smtpConfig : SmtpConfigValues ]

\* a request that reached the handler with req.body undefined (nothing parsed)
NoBody ==
    [ recipients |-> [isArray |-> FALSE, items |-> << >>],
      subject    |-> [isString |-> FALSE, value |-> ""],
      body       |-> [isString |-> FALSE, value |-> ""],
      smtpConfig |-> [isObject |-> FALSE, fields |-> {}, port |-> NoPort] ]

Requests ==
    { [hasBody |-> FALSE, body |-> NoBody] }
    \cup { [hasBody |-> TRUE, body |-> b] : b \in Bodies }

Environments ==
    [ NODE_ENV : {Unset, "development", "production"},
      TLS_REJECT_UNAUTHORIZED : {Unset, "true", "false"} ]

\* what the SMTP layer raises when the server rejects one message; the session
\* stays usable
RejectionTexts ==
    { "bad response on command 'rcpt': 550 mailbox unavailable",
      "bad response on command 'rcpt': 550 relay not permitted, authentication required" }

\* what the SMTP layer raises when the session cannot be established or is lost
SessionTexts ==
    { "connection has ended", "timedout while connecting to smtp server" }

\* the TypeError of reading a property of undefined
TypeErrorText == "Cannot read properties of undefined (reading 'recipients')"

----------------------------------------------------------------------------
(* Initial state: the request has arrived, the handler has not run *)

\* validateRecipient is not under test
ValidatorIdle == address = "" /\ validated = "pending"

\* replaceVariables is not under test
RenderIdle ==
    /\ template = ""
    /\ renderRecipient = [email |-> "", firstName |-> << >>, lastName |-> << >>,
                          company |-> << >>]
    /\ rendered = << >>

\* no concurrent sendEmail calls are under test
ConcurrentIdle == dispatches = << >> /\ sessions = << >>

\* no request is in the middleware chain
ChainIdle ==
    /\ inbound = [method |-> "", path |-> "", origin |-> "", overLimit |-> FALSE,
                  payload |-> ""]
    /\ stage = "idle"
    /\ pendingError = << >>
    /\ writes = << >>

Init ==
    /\ ValidatorIdle
    /\ RenderIdle
    /\ ConcurrentIdle
    /\ ChainIdle
    /\ req \in Requests
    /\ env \in Environments
    /\ pc = "start"
    /\ validRecipients = << >>
    /\ invalidRecipients = << >>
    /\ cursor = 0
    /\ clients = << >>
    /\ session = "none"
    /\ sends = << >>
    /\ log = << >>
    /\ thrown = "none"
    /\ response = << >>

----------------------------------------------------------------------------
(* emailService.ts: sendEmail, and the handler's paths around it *)

\* the test left out
NoValidRecipients_Never(valid) == FALSE

\* the test that makes sendEmail throw before it constructs a client
NoValidRecipients(valid) == Len(valid) = 0

\* new SMTPClient({..., tls: {rejectUnauthorized: NODE_ENV === 'production'}})
NewClient == [ rejectUnauthorized |-> (env.NODE_ENV = "production") ]

\* the handler's catch block: log, classify, answer
Fail(where, message, logged) ==
    /\ pc' = "done"
    /\ thrown' = where
    /\ log' = log \o logged \o << LogRequestFailed(message) >>
    /\ response' = Append(response, ErrorResponse(message))

\* lines 66-71: reading req.body.recipients of an undefined body throws
HandlerNoBody ==
    /\ pc = "start"
    /\ ~req.hasBody
    /\ Fail("handler", TypeErrorText, << >>)
    /\ UNCHANGED << outsideHandler, req, env, validRecipients, invalidRecipients, cursor,
                    clients, session, sends >>

\* line 73: validateEmailRequest throws
HandlerInvalidRequest ==
    /\ pc = "start"
    /\ req.hasBody
    /\ validateEmailRequest(req.body) # << >>
    /\ Fail("validateEmailRequest", validateEmailRequest(req.body)[1],
            << LogReceived >>)
    /\ UNCHANGED << outsideHandler, req, env, validRecipients, invalidRecipients, cursor,
                    clients, session, sends >>

\* the log calls of sendEmail before its test of validRecipients
SendEmailPrologue(invalid) ==
    << LogReceived, LogInit >>
    \o (IF Len(invalid) > 0 THEN << LogInvalid(invalid) >> ELSE << >>)

\* lines 47-60: the partition leaves no valid recipient and sendEmail throws
HandlerNoValidRecipients ==
    /\ pc = "start"
    /\ req.hasBody
    /\ validateEmailRequest(req.body) = << >>
    /\ LET to == req.body.recipients.items
           valid == FilterValid(to)
           invalid == FilterInvalid(to)
       IN /\ NoValidRecipients(valid)
          /\ validRecipients' = valid
          /\ invalidRecipients' = invalid
          /\ Fail("NoValidRecipients", "No valid recipients provided",
                  SendEmailPrologue(invalid) \o << LogNoValid >>)
    /\ UNCHANGED << outsideHandler, req, env, cursor, clients, session, sends >>

\* lines 47-94 with a valid recipient: the client is constructed and the loop
\* either suspends in its first sendAsync or, with nothing to iterate, ends
HandlerStartsSending ==
    /\ pc = "start"
    /\ req.hasBody
    /\ validateEmailRequest(req.body) = << >>
    /\ LET to == req.body.recipients.items
           valid == FilterValid(to)
           invalid == FilterInvalid(to)
       IN /\ ~NoValidRecipients(valid)
          /\ validRecipients' = valid
          /\ invalidRecipients' = invalid
          /\ clients' = Append(clients, NewClient)
          /\ session' = "created"
          /\ IF Len(valid) > 0
             THEN /\ pc' = "sending"
                  /\ cursor' = 1
                  /\ log' = log \o SendEmailPrologue(invalid)
                                \o << LogSending(valid[1]) >>
                  /\ UNCHANGED response
             ELSE /\ pc' = "done"
                  /\ cursor' = 0
                  /\ log' = log \o SendEmailPrologue(invalid) \o << LogCompleted >>
                  /\ response' = Append(response, SuccessResponse)
    /\ UNCHANGED << outsideHandler, req, env, sends, thrown >>

\* a call of client.sendAsync: `client` is the one object sendEmail constructed
SendRecord(result, detail) ==
    [ to |-> validRecipients[cursor].email, position |-> cursor,
      client |-> Len(clients), result |-> result, detail |-> detail ]

\* lines 86-99, then 92-101: sendAsync resolves; the loop goes on to the next
\* recipient or, after the last one, sendEmail returns and the handler answers
SendSucceeds ==
    /\ pc = "sending"
    /\ sends' = Append(sends, SendRecord("ok", ""))
    /\ session' = "connected"
    /\ IF cursor < Len(validRecipients)
       THEN /\ cursor' = cursor + 1
            /\ log' = log \o << LogSent(validRecipients[cursor]),
                                LogSending(validRecipients[cursor + 1]) >>
            /\ UNCHANGED << pc, response >>
       ELSE /\ pc' = "done"
            /\ log' = log \o << LogSent(validRecipients[cursor]), LogCompleted >>
            /\ response' = Append(response, SuccessResponse)
            /\ UNCHANGED cursor
    /\ UNCHANGED << outsideHandler, req, env, validRecipients, invalidRecipients, clients, thrown >>

\* lines 100-106, then 102-118: sendAsync rejects; sendEmail logs and rethrows,
\* the handler catches and answers
SendThrows(result, detail) ==
    /\ sends' = Append(sends, SendRecord(result, detail))
    /\ Fail("sendAsync", detail, << LogSendFailed(detail) >>)
    /\ UNCHANGED << outsideHandler, req, env, validRecipients, invalidRecipients, cursor, clients >>

\* the server rejects this message; the session stays open
SendRejected ==
    /\ pc = "sending"
    /\ \E detail \in RejectionTexts :
        /\ session' = "connected"
        /\ SendThrows("rejected", detail)

\* the session cannot be established (first send) or is lost or times out
SessionFails ==
    /\ pc = "sending"
    /\ \E detail \in SessionTexts :
        /\ session' = (IF session = "created" THEN "connectFailed" ELSE "lost")
        /\ SendThrows("sessionFailed", detail)

Next ==
    \/ HandlerNoBody
    \/ HandlerInvalidRequest
    \/ HandlerNoValidRecipients
    \/ HandlerStartsSending
    \/ SendSucceeds
    \/ SendRejected
    \/ SessionFails

Spec == Init /\ [][Next]_vars

----------------------------------------------------------------------------
(* What the claims speak of *)

Done == pc = "done"

\* the recipients of the request, in input order
To == req.body.recipients.items

\* validateEmailRequest returned true
ValidationPassed == req.hasBody /\ validateEmailRequest(req.body) = << >>

\* the response written, once the handler is done
Answer == response[Len(response)]

\* the recipient outcomes the service records are its log entries
CountLog(msg) == Cardinality({ i \in DOMAIN log : log[i].msg = msg })

RECURSIVE CountInvalidLogged(_)
CountInvalidLogged(l) ==
    IF l = << >> THEN 0
    ELSE (IF Head(l).msg = "Invalid recipients found" THEN Len(Head(l).data) ELSE 0)
         + CountInvalidLogged(Tail(l))

sentCount == CountLog("Email sent successfully")
deliveryFailedCount == CountLog("Email send failed")
invalidAddressCount == CountInvalidLogged(log)
failedCount == invalidAddressCount + deliveryFailedCount

\* position p of validRecipients had a sendAsync call
Attempted(p) == \E m \in DOMAIN sends : sends[m].position = p

\* the elements of seq at the positions in S, in increasing order of position
RECURSIVE Pick(_, _)
Pick(seq, S) ==
    IF seq = << >> THEN << >>
    ELSE Pick(SubSeq(seq, 1, Len(seq) - 1), S)
         \o (IF Len(seq) \in S THEN << seq[Len(seq)] >> ELSE << >>)

----------------------------------------------------------------------------
(* C1 *)

\* C1: after a message-level rejection of the send to the valid recipient at
\* position i, a send is attempted for every valid recipient after i: when
\* the request is done, every later position has had its send.
C1_SendsContinueAfterRejection ==
    Done =>
        \A k \in DOMAIN sends :
            sends[k].result = "rejected" =>
                \A p \in (sends[k].position + 1)..Len(validRecipients) : Attempted(p)

----------------------------------------------------------------------------
(* C2 *)

\* C2: a per-recipient send failure never propagates out of dispatch: with
\* validation passed, a valid recipient and the session established, the
\* handler catches nothing and answers 2xx.
C2_SendFailureNeverPropagates ==
    ( /\ Done
      /\ ValidationPassed
      /\ Len(validRecipients) > 0
      /\ session \in {"connected", "lost"} )
    => /\ thrown = "none"
       /\ Answer.status \in 200..299

----------------------------------------------------------------------------
(* C3 *)

\* C3: when the session dies after recipient #1 was sent, recipient #1 is
\* recorded as sent, every remaining recipient #2..N is recorded as a failed
\* delivery with the root-cause detail, and no further send is attempted.
C3_SessionDeathRecordsRemaining ==
    ( /\ Done
      /\ Len(sends) >= 2
      /\ sends[1].result = "ok"
      /\ sends[2].result = "sessionFailed" )
    => /\ sentCount = 1
       /\ Len(sends) = 2
       /\ deliveryFailedCount = Len(validRecipients) - 1
       /\ \A i \in DOMAIN log :
            log[i].msg = "Email send failed" => log[i].data = << sends[2].detail >>

----------------------------------------------------------------------------
(* C4 *)

AllInvalid == \A i \in DOMAIN To : ~validateRecipient(To[i])

\* C4: a request that passes validation and whose recipients all have invalid
\* addresses never constructs an SMTP client nor attempts a send, and ends
\* with the no-valid-recipients error and a failure response.
C4_NoValidRecipientsOpensNoSession ==
    (ValidationPassed /\ AllInvalid) =>
        /\ Len(clients) = 0
        /\ session = "none"
        /\ sends = << >>
        /\ Done => /\ thrown = "NoValidRecipients"
                   /\ ~Answer.success

C4_Witness ==
    /\ Done
    /\ ValidationPassed
    /\ AllInvalid
    /\ Len(To) >= 2
    /\ thrown = "NoValidRecipients"

----------------------------------------------------------------------------
(* C5 *)

\* C5: a total failure caused by a validation condition or by the
\* no-valid-recipients condition is answered 400, an SMTP failure 500.
C5_FailureStatusByCause ==
    (Done /\ ~Answer.success) =>
        /\ thrown \in {"validateEmailRequest", "NoValidRecipients"}
              => Answer.status = 400
        /\ thrown = "sendAsync" => Answer.status = 500

----------------------------------------------------------------------------
(* C6 *)

\* C6: whatever text the SMTP layer raises, the response is a 500 and, outside
\* development mode, the text appears nowhere in the response body.
C6_SmtpDetailHidden ==
    (Done /\ thrown = "sendAsync") =>
        /\ Answer.status = 500
        /\ env.NODE_ENV # "development" =>
              /\ Answer.error = << >>
              /\ ~Includes(Answer.message, sends[Len(sends)].detail)

----------------------------------------------------------------------------
(* C7 *)

\* C7: every SMTP client is constructed with certificate validation on unless
\* the environment explicitly disables it.
C7_TlsValidatedUnlessDisabled ==
    \A i \in DOMAIN clients :
        env.TLS_REJECT_UNAUTHORIZED # "false" => clients[i].rejectUnauthorized

----------------------------------------------------------------------------
(* C8 *)

\* the malformed shapes the claim lists, read off the request
Malformed ==
    LET b == req.body IN
    \/ ~b.recipients.isArray \/ Len(b.recipients.items) = 0
    \/ ~b.subject.isString \/ \A k \in 1..Len(b.subject.value) :
                                  IsSpace(SubSeq(b.subject.value, k, k))
    \/ ~b.body.isString \/ \A k \in 1..Len(b.body.value) :
                               IsSpace(SubSeq(b.body.value, k, k))
    \/ ~b.smtpConfig.isObject
    \/ AllSmtpFields \ b.smtpConfig.fields # {}
    \/ ~b.smtpConfig.port.isNumber \/ b.smtpConfig.port.value <= 0

\* C8: a malformed request is rejected as a validation error with status 400
\* before any SMTP client is constructed or any send attempted.
C8_MalformedRejected400 ==
    Malformed =>
        /\ Len(clients) = 0
        /\ sends = << >>
        /\ Done => /\ Answer.status = 400
                   /\ thrown = "validateEmailRequest"

----------------------------------------------------------------------------
(* C9 *)

\* C9: a dispatch that ran to its end has recorded one outcome per input
\* recipient: sentCount + failedCount is the number of recipients.
C9_OneOutcomePerRecipient ==
    (Done /\ ValidationPassed /\ Len(validRecipients) > 0) =>
        sentCount + failedCount = Len(To)

----------------------------------------------------------------------------
(* C10 *)

\* C10: the partition's two lists have lengths that sum to the input's, every
\* input position is in exactly one of them, and each keeps the input order:
\* some set S of positions gives the valid list, and its complement the
\* invalid list.
C10_PartitionStable ==
    (pc # "start" /\ ValidationPassed) =>
        /\ Len(validRecipients) + Len(invalidRecipients) = Len(To)
        /\ \E S \in SUBSET (1..Len(To)) :
              /\ validRecipients = Pick(To, S)
              /\ invalidRecipients = Pick(To, (1..Len(To)) \ S)

C10_Witness ==
    /\ pc # "start"
    /\ ValidationPassed
    /\ Len(To) = 3
    /\ validRecipients = << To[1], To[3] >>
    /\ invalidRecipients = << To[2] >>
    /\ To[1] # To[3]

----------------------------------------------------------------------------
(* No request in the handler: the state of the handler's variables in the  *)
(* specifications of the parts taken on their own                          *)

HandlerIdle ==
    /\ req = [hasBody |-> FALSE, body |-> NoBody]
    /\ env = [NODE_ENV |-> Unset, TLS_REJECT_UNAUTHORIZED |-> Unset]
    /\ pc = "idle"
    /\ validRecipients = << >>
    /\ invalidRecipients = << >>
    /\ cursor = 0
    /\ clients = << >>
    /\ session = "none"
    /\ sends = << >>
    /\ log = << >>
    /\ thrown = "none"
    /\ response = << >>

----------------------------------------------------------------------------
(* emailService.ts: validateRecipient on its own, over every short address *)

AddrAlphabet == { "a", "@", ".", " " }

\* the strings over alphabet A of length at most n
RECURSIVE StringsUpTo(_, _)
StringsUpTo(A, n) ==
    IF n = 0 THEN { "" }
    ELSE LET shorter == StringsUpTo(A, n - 1)
         IN shorter \cup { s \o c : s \in shorter, c \in A }

InitValidate ==
    /\ HandlerIdle
    /\ RenderIdle
    /\ ConcurrentIdle
    /\ ChainIdle
    /\ address \in StringsUpTo(AddrAlphabet, MaxAddrLen)
    /\ validated = "pending"

\* validateRecipient({email: address})
ValidateAddress ==
    /\ validated = "pending"
    /\ validated' = IF validateRecipient([email |-> address])
                    THEN "accepted" ELSE "rejected"
    /\ UNCHANGED << handlerVars, renderVars, concurrentVars, chainVars, address >>

NextValidate == ValidateAddress

SpecValidate == InitValidate /\ [][NextValidate]_vars

----------------------------------------------------------------------------
(* C11 *)

CharAt(s, k) == SubSeq(s, k, k)

Positions(s, c) == { k \in 1..Len(s) : CharAt(s, k) = c }

\* the shape the claim gives: no whitespace, exactly one '@', something before
\* it, and after it a '.' with something on both of its sides
C11_Shape(s) ==
    /\ \A k \in 1..Len(s) : ~IsSpace(CharAt(s, k))
    /\ Cardinality(Positions(s, "@")) = 1
    /\ \E at \in Positions(s, "@") :
          /\ at > 1
          /\ \E dot \in Positions(s, ".") : at + 1 < dot /\ dot < Len(s)

\* C11: an address is accepted if and only if it has no whitespace, exactly
\* one '@', a non-empty local part, and after the '@' a '.' with non-empty
\* text on both sides of it.
C11_AcceptedIffShape ==
    validated # "pending" => (validated = "accepted" <=> C11_Shape(address))

C11_Witness ==
    /\ validated = "accepted"
    /\ address = "a@a..a"

----------------------------------------------------------------------------
(* emailService.ts: replaceVariables *)

UpperLetters == "ABCDEFGHIJKLMNOPQRSTUVWXYZ"
LowerLetters == "abcdefghijklmnopqrstuvwxyz"

\* the lower-case letter of each upper-case letter
LowerOf ==
    [ c \in { CharAt(UpperLetters, k) : k \in 1..Len(UpperLetters) } |->
        CharAt(LowerLetters, CHOOSE k \in 1..Len(UpperLetters) :
                                 CharAt(UpperLetters, k) = c) ]

\* the case folding of the regular expression flag i, on one character
ToLowerChar(c) == IF c \in DOMAIN LowerOf THEN LowerOf[c] ELSE c

RECURSIVE ToLower(_)
ToLower(s) ==
    IF Len(s) = 0 THEN ""
    ELSE ToLowerChar(CharAt(s, 1)) \o ToLower(SubSeq(s, 2, Len(s)))

\* the regular expression /\[name\]/i matches text at position i
MatchesAt(text, i, token) ==
    /\ i + Len(token) - 1 <= Len(text)
    /\ ToLower(SubSeq(text, i, i + Len(token) - 1)) = token

\* the replacement string of String.prototype.replace, expanded for one match:
\* $$ is a dollar, $& the matched text, $` the text before the match, $' the
\* text after it; with no capture group every other $ stands for itself
RECURSIVE Expand(_, _, _, _)
Expand(repl, matched, before, after) ==
    IF Len(repl) = 0 THEN ""
    ELSE IF CharAt(repl, 1) = "$" /\ Len(repl) >= 2
              /\ CharAt(repl, 2) \in { "$", "&", "`", "'" }
    THEN (CASE CharAt(repl, 2) = "$" -> "$"
            [] CharAt(repl, 2) = "&" -> matched
            [] CharAt(repl, 2) = "`" -> before
            [] CharAt(repl, 2) = "'" -> after)
         \o Expand(SubSeq(repl, 3, Len(repl)), matched, before, after)
    ELSE CharAt(repl, 1) \o Expand(SubSeq(repl, 2, Len(repl)), matched, before, after)

\* text.replace(/\[name\]/gi, repl) from position i on: every match, left to
\* right, without overlap
RECURSIVE ReplaceFrom(_, _, _, _)
ReplaceFrom(text, i, token, repl) ==
    IF i > Len(text) THEN ""
    ELSE IF MatchesAt(text, i, token)
    THEN Expand(repl, SubSeq(text, i, i + Len(token) - 1), SubSeq(text, 1, i - 1),
                SubSeq(text, i + Len(token), Len(text)))
         \o ReplaceFrom(text, i + Len(token), token, repl)
    ELSE CharAt(text, i) \o ReplaceFrom(text, i + 1, token, repl)

ReplaceAll(text, token, repl) == ReplaceFrom(text, 1, token, repl)

\* recipient.firstName || '' and the like: an absent field gives ''
OrEmpty(field) == IF field = << >> THEN "" ELSE field[1]

\* replaceVariables that also removes a bracket sequence it does not know
replaceVariables_DropsUnknown(text, r) ==
    ReplaceAll(
      ReplaceAll(
        ReplaceAll(
          ReplaceAll(
            ReplaceAll(text, "[first_name]", OrEmpty(r.firstName)),
            "[last_name]", OrEmpty(r.lastName)),
          "[email]", r.email),
        "[company]", OrEmpty(r.company)),
      "[unknown]", "")

\* replaceVariables: four replace calls, each on the result of the one before
replaceVariables(text, r) ==
    ReplaceAll(
      ReplaceAll(
        ReplaceAll(
          ReplaceAll(text, "[first_name]", OrEmpty(r.firstName)),
          "[last_name]", OrEmpty(r.lastName)),
        "[email]", r.email),
      "[company]", OrEmpty(r.company))

----------------------------------------------------------------------------
(* replaceVariables on its own, over templates put together from pieces *)

TemplateParts ==
    { "[first_name]", "[LAST_NAME]", "[email]", "[Company]", "[unknown]",
      "[", "email]", "Hi " }

\* the concatenations of at most n pieces
RECURSIVE TemplatesUpTo(_)
TemplatesUpTo(n) ==
    IF n = 0 THEN { "" }
    ELSE LET shorter == TemplatesUpTo(n - 1)
         IN shorter \cup { t \o part : t \in shorter, part \in TemplateParts }

RenderRecipients ==
    [ email     : { "a@x.com", "a$$b@x.io", "not-an-email" },
      firstName : { << >>, << "Ann" >>, << "[email]" >>, << "$&" >> },
      lastName  : { << >>, << "Lee" >> },
      company   : { << >>, << "ACME" >> } ]

InitRender ==
    /\ HandlerIdle
    /\ ValidatorIdle
    /\ ConcurrentIdle
    /\ ChainIdle
    /\ template \in TemplatesUpTo(MaxParts)
    /\ renderRecipient \in RenderRecipients
    /\ rendered = << >>

\* replaceVariables(template, recipient)
Render ==
    /\ rendered = << >>
    /\ rendered' = << replaceVariables(template, renderRecipient) >>
    /\ UNCHANGED << handlerVars, validatorVars, concurrentVars, chainVars,
                    template, renderRecipient >>

NextRender == Render

SpecRender == InitRender /\ [][NextRender]_vars

----------------------------------------------------------------------------
(* C12 *)

PlaceholderTokens == { "[first_name]", "[last_name]", "[email]", "[company]" }

\* the recipient field a placeholder token stands for
FieldValue(token, r) ==
    CASE token = "[first_name]" -> OrEmpty(r.firstName)
      [] token = "[last_name]"  -> OrEmpty(r.lastName)
      [] token = "[email]"      -> r.email
      [] token = "[company]"    -> OrEmpty(r.company)

\* a placeholder token, in any case, stands at position i of text
TokenAt(text, i, token) ==
    /\ i + Len(token) - 1 <= Len(text)
    /\ ToLower(SubSeq(text, i, i + Len(token) - 1)) = token

\* the template from position i on, with each placeholder occurrence replaced
\* by its field value as it stands, and nothing else touched
RECURSIVE VerbatimFrom(_, _, _)
VerbatimFrom(text, i, r) ==
    IF i > Len(text) THEN ""
    ELSE IF \E token \in PlaceholderTokens : TokenAt(text, i, token)
    THEN LET token == CHOOSE tk \in PlaceholderTokens : TokenAt(text, i, tk)
         IN FieldValue(token, r) \o VerbatimFrom(text, i + Len(token), r)
    ELSE CharAt(text, i) \o VerbatimFrom(text, i + 1, r)

\* C12: render returns the template with each occurrence of the four
\* placeholders, in any case, replaced by the recipient's field value inserted
\* verbatim ('' for an absent field), all other text unchanged and no inserted
\* value rescanned or altered.
C12_RenderVerbatim ==
    rendered # << >> => rendered[1] = VerbatimFrom(template, 1, renderRecipient)

----------------------------------------------------------------------------
(* C13 *)

\* C13: for a recipient whose address passes validation, rendering the
\* template "[email]" gives exactly the address.
C13_EmailRoundTrip ==
    ( /\ rendered # << >>
      /\ template = "[email]"
      /\ validateRecipient(renderRecipient) )
    => rendered[1] = renderRecipient.email

----------------------------------------------------------------------------
(* C14 *)

ContainsPlaceholder(text) ==
    \E i \in 1..Len(text) : \E token \in PlaceholderTokens : TokenAt(text, i, token)

\* C14: a template that contains none of the four placeholders, other bracket
\* sequences included, is returned as it is, for every recipient.
C14_NoPlaceholderIdentity ==
    (rendered # << >> /\ ~ContainsPlaceholder(template)) => rendered[1] = template

C14_Witness ==
    /\ rendered = << "[unknown][" >>
    /\ template = "[unknown]["
    /\ renderRecipient.firstName = << "$&" >>
    /\ renderRecipient.email = "a$$b@x.io"

----------------------------------------------------------------------------
(* C15 *)

\* the input positions whose address passes validation
ValidPositions == { i \in DOMAIN To : validateRecipient(To[i]) }

\* the addresses sendAsync was called with, in call order
SentTo == [ k \in DOMAIN sends |-> sends[k].to ]

\* C15: one dispatch constructs at most one SMTP client, exactly one once
\* validation has passed with a valid recipient, and every send goes through
\* it; the sends go to the valid recipients only, in input order, one send
\* for each and none twice.
C15_OneSessionOrderedSends ==
    /\ Len(clients) <= 1
    /\ (pc # "start" /\ ValidationPassed /\ ValidPositions # {}) => Len(clients) = 1
    /\ \A k \in DOMAIN sends :
          /\ sends[k].client = 1
          /\ Len(clients) = 1
          /\ sends[k].position = k
          /\ EmailRegexTest(sends[k].to)
    /\ sends # << >> =>
          /\ Len(sends) <= Cardinality(ValidPositions)
          /\ SentTo = SubSeq(Emails(Pick(To, ValidPositions)), 1, Len(sends))

C15_Witness ==
    /\ Done
    /\ To = << [email |-> "b@y.org"], [email |-> "not-an-email"], [email |-> "a@x.com"] >>
    /\ SentTo = << "b@y.org", "a@x.com" >>
    /\ \A k \in DOMAIN sends : sends[k].result = "ok"

----------------------------------------------------------------------------
(* C16 *)

\* the sends that succeeded
OkSends == { k \in DOMAIN sends : sends[k].result = "ok" }

\* C16: the N of the success message is the number of recipients a message
\* was sent to in this request.
C16_SuccessCountIsSent ==
    (Done /\ Answer.success) =>
        Answer.message = "Email sent successfully to "
                         \o ToString(Cardinality(OkSends)) \o " recipient(s)"

----------------------------------------------------------------------------
(* emailService.ts: two sendEmail calls running concurrently.  Each call   *)
(* runs without interruption from one await to the next; the calls         *)
(* interleave at their awaits of client.sendAsync.                         *)

DispatchIds == { 1, 2 }

ConcurrentPool ==
    { [email |-> "a@x.com"], [email |-> "b@y.org"], [email |-> "not-an-email"] }

\* the locals of a sendEmail call that has just been made
CalledWith(to) ==
    [ to |-> to, pc |-> "called", validRecipients |-> << >>, cursor |-> 0,
      client |-> 0, sends |-> << >> ]

InitConcurrent ==
    /\ HandlerIdle
    /\ ValidatorIdle
    /\ RenderIdle
    /\ ChainIdle
    /\ dispatches \in [ DispatchIds ->
                          { CalledWith(to) : to \in BoundedSeq(ConcurrentPool, MaxBatch) } ]
    /\ sessions = << >>

\* a `client` kept in one module-level variable, overwritten by each call
ClientOf_ModuleLevel(d) == Len(sessions)

\* the `client` of call d: a const local to the call
ClientOf(d) == dispatches[d].client

\* lines 47-86 of call d: partition, throw or construct the client and suspend
\* in the first sendAsync
ConcurrentStart(d) ==
    /\ dispatches[d].pc = "called"
    /\ LET valid == FilterValid(dispatches[d].to)
       IN IF NoValidRecipients(valid)
          THEN /\ dispatches' = [dispatches EXCEPT ![d].pc = "threw"]
               /\ UNCHANGED sessions
          ELSE /\ sessions' = Append(sessions, [owner |-> d, state |-> "created"])
               /\ dispatches' = [dispatches EXCEPT
                                   ![d].pc = "sending",
                                   ![d].validRecipients = valid,
                                   ![d].cursor = 1,
                                   ![d].client = Len(sessions) + 1]
    /\ UNCHANGED << handlerVars, validatorVars, renderVars, chainVars >>

ConcurrentSendRecord(d, result) ==
    [ to |-> dispatches[d].validRecipients[dispatches[d].cursor].email,
      client |-> ClientOf(d), result |-> result ]

\* lines 86-99 of call d: its sendAsync resolves; on to the next recipient, or
\* the call returns
ConcurrentSendSucceeds(d) ==
    /\ dispatches[d].pc = "sending"
    /\ sessions[ClientOf(d)].state # "failed"
    /\ sessions' = [sessions EXCEPT ![ClientOf(d)].state = "connected"]
    /\ dispatches' = [dispatches EXCEPT
                        ![d].sends = Append(@, ConcurrentSendRecord(d, "ok")),
                        ![d].cursor = IF @ < Len(dispatches[d].validRecipients)
                                      THEN @ + 1 ELSE @,
                        ![d].pc = IF dispatches[d].cursor
                                       < Len(dispatches[d].validRecipients)
                                  THEN "sending" ELSE "returned"]
    /\ UNCHANGED << handlerVars, validatorVars, renderVars, chainVars >>

\* lines 86-106 of call d: the server rejects the message; the call throws
ConcurrentSendRejected(d) ==
    /\ dispatches[d].pc = "sending"
    /\ sessions[ClientOf(d)].state # "failed"
    /\ sessions' = [sessions EXCEPT ![ClientOf(d)].state = "connected"]
    /\ dispatches' = [dispatches EXCEPT
                        ![d].sends = Append(@, ConcurrentSendRecord(d, "rejected")),
                        ![d].pc = "threw"]
    /\ UNCHANGED << handlerVars, validatorVars, renderVars, chainVars >>

\* lines 86-106 of call d: its session cannot be established, is lost or times
\* out; the call throws
ConcurrentSessionFails(d) ==
    /\ dispatches[d].pc = "sending"
    /\ sessions' = [sessions EXCEPT ![ClientOf(d)].state = "failed"]
    /\ dispatches' = [dispatches EXCEPT
                        ![d].sends = Append(@, ConcurrentSendRecord(d, "sessionFailed")),
                        ![d].pc = "threw"]
    /\ UNCHANGED << handlerVars, validatorVars, renderVars, chainVars >>

NextConcurrent ==
    \E d \in DispatchIds :
        \/ ConcurrentStart(d)
        \/ ConcurrentSendSucceeds(d)
        \/ ConcurrentSendRejected(d)
        \/ ConcurrentSessionFails(d)

SpecConcurrent == InitConcurrent /\ [][NextConcurrent]_vars

----------------------------------------------------------------------------
(* C17 *)

\* call d uses a session of its own: the one client it constructed, which no
\* other call constructed or sends through
OwnSession(d) ==
    /\ Cardinality({ i \in DOMAIN sessions : sessions[i].owner = d }) <= 1
    /\ dispatches[d].client # 0 => sessions[dispatches[d].client].owner = d
    /\ \A k \in DOMAIN dispatches[d].sends :
          sessions[dispatches[d].sends[k].client].owner = d

\* the sends and the result of call d are those of the call run alone with
\* the same answers of the server: one send for each valid recipient in input
\* order up to the first that fails; returned when all were sent, thrown when
\* there was none to send to or one failed
AsAlone(d) ==
    LET D == dispatches[d]
        valid == FilterValid(D.to)
        n == Len(D.sends)
    IN /\ n <= Len(valid)
       /\ \A k \in 1..n : D.sends[k].to = valid[k].email
       /\ \A k \in 1..(n - 1) : D.sends[k].result = "ok"
       /\ D.pc = "called" => n = 0
       /\ D.pc = "sending" => n < Len(valid) /\ (n > 0 => D.sends[n].result = "ok")
       /\ D.pc = "returned" => n = Len(valid) /\ n > 0 /\ D.sends[n].result = "ok"
       /\ D.pc = "threw" => Len(valid) = 0 \/ (n > 0 /\ D.sends[n].result # "ok")

\* whatever the other call is doing, a send in flight of call d can still succeed
NotHeldUp(d) == dispatches[d].pc = "sending" => ENABLED ConcurrentSendSucceeds(d)

\* C17: two sendEmail calls interleaved in any order each use their own SMTP
\* session, make the sends and reach the result they would alone, and a
\* failed or pending send of one neither aborts nor holds up the other.
C17_ConcurrentDispatchesIndependent ==
    \A d \in DispatchIds : OwnSession(d) /\ AsAlone(d) /\ NotHeldUp(d)

\* call 1 is mid-batch with a send in flight after call 2 lost its session
C17_Witness ==
    /\ dispatches[2].pc = "threw"
    /\ Len(dispatches[2].sends) = 1
    /\ dispatches[2].sends[1].result = "sessionFailed"
    /\ dispatches[1].pc = "sending"
    /\ Len(dispatches[1].sends) = 1
    /\ Len(dispatches[1].validRecipients) = 2
    /\ sessions[dispatches[1].client].state = "connected"

----------------------------------------------------------------------------
(* index.ts: one inbound request passing down the middleware chain.  `stage` *)
(* is the middleware the request has reached, `pendingError` the error       *)
(* handed to next(err), `writes` every attempt to write the response in      *)
(* order; an attempt is accepted only while no response has been written.    *)

\* corsOrigin.split(',') with CORS_ORIGIN unset
AllowedOrigins == { "http://localhost:5173" }

StartsWith(s, prefix) ==
    Len(s) >= Len(prefix) /\ SubSeq(s, 1, Len(prefix)) = prefix

InboundRequests ==
    [ method    : { "GET", "POST", "OPTIONS" },
      path      : { "/health", "/debug/cors", "/api/email/send", "/missing" },
      origin    : { Unset, "http://localhost:5173", "http://evil.example" },
      overLimit : BOOLEAN,
      payload   : { "none", "json", "invalidJson" } ]

InitChain ==
    /\ ValidatorIdle
    /\ RenderIdle
    /\ ConcurrentIdle
    /\ req = [hasBody |-> FALSE, body |-> NoBody]
    /\ env \in { e \in Environments : e.TLS_REJECT_UNAUTHORIZED = Unset }
    /\ pc = "idle"
    /\ validRecipients = << >>
    /\ invalidRecipients = << >>
    /\ cursor = 0
    /\ clients = << >>
    /\ session = "none"
    /\ sends = << >>
    /\ log = << >>
    /\ thrown = "none"
    /\ response = << >>
    /\ inbound \in InboundRequests
    /\ stage = "helmet"
    /\ pendingError = << >>
    /\ writes = << >>

\* one attempt to write the response; Node accepts it only when no response
\* has been written yet
WriteAttempt(by, status, message, detail) ==
    Append(writes, [ by |-> by, status |-> status, message |-> message,
                     error |-> detail, accepted |-> writes = << >> ])

\* next(err)
NextWith(name, message) == << [name |-> name, message |-> message] >>

Outside == << handlerVars, validatorVars, renderVars, concurrentVars >>

\* app.use(helmet()): sets headers and calls next()
Helmet ==
    /\ stage = "helmet"
    /\ stage' = "cors"
    /\ UNCHANGED << Outside, inbound, pendingError, writes >>

\* app.use(cors(corsOptions)): an origin not allowed goes to next(err); a
\* preflight is answered 204 by cors itself; anything else goes on
Cors ==
    /\ stage = "cors"
    /\ IF ~(inbound.origin = Unset \/ inbound.origin \in AllowedOrigins)
       THEN /\ pendingError' = NextWith("Error", "Origin " \o inbound.origin
                                                  \o " not allowed by CORS")
            /\ stage' = "errorHandler"
            /\ UNCHANGED writes
       ELSE IF inbound.method = "OPTIONS"
       THEN /\ writes' = WriteAttempt("cors", 204, "", << >>)
            /\ stage' = "done"
            /\ UNCHANGED pendingError
       ELSE /\ stage' = "limiter"
            /\ UNCHANGED << pendingError, writes >>
    /\ UNCHANGED << Outside, inbound >>

\* app.use('/api/', limiter): over the limit, the limiter answers 429 itself
Limiter ==
    /\ stage = "limiter"
    /\ IF StartsWith(inbound.path, "/api/") /\ inbound.overLimit
       THEN /\ writes' = WriteAttempt("limiter", 429,
                   "Too many requests from this IP, please try again later", << >>)
            /\ stage' = "done"
       ELSE /\ stage' = "json"
            /\ UNCHANGED writes
    /\ UNCHANGED << Outside, inbound, pendingError >>

\* app.use(express.json({verify})): on a JSON body that does not parse, the
\* verify hook writes and ends the 400 response and throws; the body parser
\* hands what the hook threw to next(err)
JsonBody ==
    /\ stage = "json"
    /\ IF inbound.payload = "invalidJson"
       THEN /\ writes' = WriteAttempt("verify", 400, "Invalid JSON payload", << >>)
            /\ pendingError' = NextWith("Error", "Invalid JSON")
            /\ stage' = "errorHandler"
       ELSE /\ stage' = "routes"
            /\ UNCHANGED << pendingError, writes >>
    /\ UNCHANGED << Outside, inbound >>

\* app.get('/health', ...)
HealthRoute ==
    /\ stage = "routes"
    /\ inbound.method = "GET" /\ inbound.path = "/health"
    /\ writes' = WriteAttempt("health", 200, "ok", << >>)
    /\ stage' = "done"
    /\ UNCHANGED << Outside, inbound, pendingError >>

\* app.get('/debug/cors', ...)
DebugCorsRoute ==
    /\ stage = "routes"
    /\ inbound.method = "GET" /\ inbound.path = "/debug/cors"
    /\ writes' = WriteAttempt("debugCors", 200, "", << >>)
    /\ stage' = "done"
    /\ UNCHANGED << Outside, inbound, pendingError >>

\* the answers sendEmailHandler gives to a parsed body: its try block ends in
\* the success answer, its catch block in one failure answer
HandlerAnswers ==
    { [status |-> 200, message |-> "Email sent successfully"],
      [status |-> 400, message |-> "Subject is required"],
      [status |-> 500, message |-> "Failed to send email"] }

\* emailRouter.post('/send', sendEmailHandler): every path of the handler ends
\* in exactly one res.json; without a parsed body it is the catch block's 500
EmailSendRoute ==
    /\ stage = "routes"
    /\ inbound.method = "POST" /\ inbound.path = "/api/email/send"
    /\ \E answer \in HandlerAnswers :
          /\ inbound.payload = "none" => answer.status = 500
          /\ writes' = WriteAttempt("sendEmailHandler", answer.status, answer.message,
                                  << >>)
    /\ stage' = "done"
    /\ UNCHANGED << Outside, inbound, pendingError >>

\* no route matches: errorHandler is passed over, the 404 handler is next
NoRouteMatches ==
    /\ stage = "routes"
    /\ ~(inbound.method = "GET" /\ inbound.path \in { "/health", "/debug/cors" })
    /\ ~(inbound.method = "POST" /\ inbound.path = "/api/email/send")
    /\ stage' = "notFound"
    /\ UNCHANGED << Outside, inbound, pendingError, writes >>

\* errorHandler: answers by the type of the error, without looking at
\* res.headersSent
errorHandler ==
    /\ stage = "errorHandler"
    /\ LET err == pendingError[1]
       IN writes' =
            IF err.name = "ValidationError"
            THEN WriteAttempt("errorHandler", 400, err.message, << >>)
            ELSE IF err.name = "RateLimitError"
            THEN WriteAttempt("errorHandler", 429, err.message, << >>)
            ELSE WriteAttempt("errorHandler", 500, "An unexpected error occurred",
                              ErrorDetail(err.message))
    /\ stage' = "done"
    /\ UNCHANGED << Outside, inbound, pendingError >>

\* the last app.use: 404 'Not Found'
NotFound ==
    /\ stage = "notFound"
    /\ writes' = WriteAttempt("notFound", 404, "Not Found", << >>)
    /\ stage' = "done"
    /\ UNCHANGED << Outside, inbound, pendingError >>

NextChain ==
    \/ Helmet
    \/ Cors
    \/ Limiter
    \/ JsonBody
    \/ HealthRoute
    \/ DebugCorsRoute
    \/ EmailSendRoute
    \/ NoRouteMatches
    \/ errorHandler
    \/ NotFound

SpecChain == InitChain /\ [][NextChain]_vars

----------------------------------------------------------------------------
(* C18 *)

Accepted == { k \in DOMAIN writes : writes[k].accepted }

VerifyAnswered == \E k \in DOMAIN writes : writes[k].by = "verify"

\* C18: on every path through the chain at most one response is written, and
\* once the verify hook has written the 400 'Invalid JSON payload' response no
\* later middleware attempts to write another.
C18_AtMostOneResponse ==
    /\ Cardinality(Accepted) <= 1
    /\ VerifyAnswered => Len(writes) = 1

====
